---- MODULE Spec2Model ----
(***************************************************************************)
(* Model of the stats library (src/src/lib.rs): mean, stddev, median, l2   *)
(* and summation_power over slices of f64.                                 *)
(*                                                                         *)
(* An f64 is a record [k, n, d]:                                           *)
(*   k = "fin"  the rational n/d (d > 0, lowest terms)                     *)
(*   k = "inf"  +infinity (n = 1) or -infinity (n = -1)                    *)
(*   k = "nan"  NaN                                                        *)
(*   k = "rad"  the positive irrational square root of n/d                 *)
(* The arithmetic follows IEEE 754 for the special values (NaN absorbs,    *)
(* inf - inf = NaN, 0/0 = NaN, x/0 = inf) and is exact on the finite       *)
(* values: rounding to 53 bits and the sign of zero are not modelled.      *)
(***************************************************************************)
EXTENDS Integers, Sequences, FiniteSets, TLC

VARIABLES sample, off, called, ret

vars == <<sample, off, called, ret>>

\* Longest sample the model draws.
MaxLen == 3

----------------------------------------------------------------------------
\* f64 values

Abs(i) == IF i < 0 THEN -i ELSE i

Sign(i) == IF i < 0 THEN -1 ELSE IF i > 0 THEN 1 ELSE 0

RECURSIVE Gcd(_, _)
Gcd(a, b) == IF b = 0 THEN a ELSE Gcd(b, a % b)

\* The finite value n/d (d # 0) in lowest terms with a positive denominator.
Q(n, d) ==
    LET g == Gcd(Abs(n), Abs(d))
        s == Sign(d)
    IN  [k |-> "fin", n |-> (s * n) \div g, d |-> Abs(d) \div g]

Fin(i) == Q(i, 1)

NaN == [k |-> "nan", n |-> 0, d |-> 1]

Inf(s) == [k |-> "inf", n |-> s, d |-> 1]

Rad(n, d) == [k |-> "rad", n |-> n, d |-> d]

IsNaN(a) == a.k = "nan"

\* f64 + f64
Add(a, b) ==
    IF IsNaN(a) \/ IsNaN(b) THEN NaN
    ELSE IF a.k = "inf" THEN (IF b.k = "inf" /\ b.n # a.n THEN NaN ELSE a)
    ELSE IF b.k = "inf" THEN b
    ELSE Q(a.n * b.d + b.n * a.d, a.d * b.d)

\* unary minus
Neg(a) == IF IsNaN(a) THEN NaN ELSE [a EXCEPT !.n = -a.n]

\* f64 - f64
Sub(a, b) == Add(a, Neg(b))

\* f64 * f64
Mul(a, b) ==
    IF IsNaN(a) \/ IsNaN(b) THEN NaN
    ELSE IF a.k = "inf" \/ b.k = "inf"
         THEN (IF a.n = 0 \/ b.n = 0 THEN NaN ELSE Inf(Sign(a.n) * Sign(b.n)))
    ELSE Q(a.n * b.n, a.d * b.d)

\* f64 / f64 (a zero divisor is +0.0)
Div(a, b) ==
    IF IsNaN(a) \/ IsNaN(b) THEN NaN
    ELSE IF a.k = "inf"
         THEN (IF b.k = "inf" THEN NaN
               ELSE Inf(IF b.n < 0 THEN -a.n ELSE a.n))
    ELSE IF b.k = "inf" THEN Fin(0)
    ELSE IF b.n = 0 THEN (IF a.n = 0 THEN NaN ELSE Inf(Sign(a.n)))
    ELSE Q(a.n * b.d, a.d * b.n)

\* f64::powf(2.0)
Powf2(a) == Mul(a, a)

\* Largest r with r * r <= i  (i >= 0)
ISqrt(i) == CHOOSE r \in 0..i : r * r <= i /\ (r + 1) * (r + 1) > i

IsSquare(i) == ISqrt(i) * ISqrt(i) = i

\* f64::sqrt
Sqrt(a) ==
    IF IsNaN(a) THEN NaN
    ELSE IF a.k = "inf" THEN (IF a.n > 0 THEN a ELSE NaN)
    ELSE IF a.n < 0 THEN NaN
    ELSE IF IsSquare(a.n) /\ IsSquare(a.d) THEN Q(ISqrt(a.n), ISqrt(a.d))
    ELSE Rad(a.n, a.d)

\* f64::partial_cmp
PartialCmp(a, b) ==
    IF IsNaN(a) \/ IsNaN(b) THEN "None"
    ELSE IF a.k = "inf" /\ b.k = "inf"
         THEN (IF a.n < b.n THEN "Less" ELSE IF a.n > b.n THEN "Greater" ELSE "Equal")
    ELSE IF a.k = "inf" THEN (IF a.n < 0 THEN "Less" ELSE "Greater")
    ELSE IF b.k = "inf" THEN (IF b.n > 0 THEN "Less" ELSE "Greater")
    ELSE IF a.n * b.d < b.n * a.d THEN "Less"
    ELSE IF a.n * b.d > b.n * a.d THEN "Greater"
    ELSE "Equal"

----------------------------------------------------------------------------
\* Results of a call

None == [tag |-> "None", val |-> NaN]

Some(v) == [tag |-> "Some", val |-> v]

\* a plain f64 return value (summation_power)
Plain(v) == [tag |-> "f64", val |-> v]

\* the call unwound with a panic and returned nothing
Panic == [tag |-> "Panic", val |-> NaN]

NoCall == [tag |-> "NoCall", val |-> NaN]

----------------------------------------------------------------------------
\* The library functions

RECURSIVE mean_loop(_, _, _, _)
mean_loop(nums, i, x, y) ==
    IF i > Len(nums) THEN <<x, y>>
    ELSE mean_loop(nums, i + 1, Add(x, Fin(1)), Add(y, nums[i]))

\* mean with the element counter started at 1.0
mean_count_from_one(nums) ==
    IF nums = <<>> THEN Some(Fin(0))
    ELSE LET xy == mean_loop(nums, 1, Fin(1), Fin(0))
         IN  Some(Div(xy[2], xy[1]))

mean(nums) ==
    IF nums = <<>> THEN Some(Fin(0))
    ELSE LET xy == mean_loop(nums, 1, Fin(0), Fin(0))
             z  == Div(xy[2], xy[1])
         IN  Some(z)

RECURSIVE summation_loop(_, _, _, _)
summation_loop(nums, offset, i, total) ==
    IF i > Len(nums) THEN total
    ELSE summation_loop(nums, offset, i + 1,
                        Add(total, Powf2(Sub(nums[i], offset))))

\* summation_power that never subtracts the offset
summation_power_no_offset(nums, offset) == summation_loop(nums, Fin(0), 1, Fin(0))

summation_power(nums, offset) == summation_loop(nums, offset, 1, Fin(0))

\* stddev normalised by n instead of n - 1
stddev_div_n(nums) ==
    IF nums = <<>> THEN None
    ELSE Some(Div(summation_power(nums, mean(nums).val), Fin(Len(nums))))

\* stddev with a guard that turns the single-element sample into None
stddev_guarded(nums) ==
    IF Len(nums) <= 1 THEN None
    ELSE Some(Div(summation_power(nums, mean(nums).val), Fin(Len(nums) - 1)))

stddev(nums) ==
    IF nums = <<>> THEN None
    ELSE Some(Div(summation_power(nums, mean(nums).val), Fin(Len(nums) - 1)))

\* l2 that reports the empty sample as undefined
l2_none_on_empty(nums) ==
    IF nums = <<>> THEN None
    ELSE Some(Sqrt(summation_power(nums, Fin(0))))

\* l2 without the square root
l2_no_sqrt(nums) ==
    IF nums = <<>> THEN Some(Fin(0))
    ELSE Some(summation_power(nums, Fin(0)))

l2(nums) ==
    IF nums = <<>> THEN Some(Fin(0))
    ELSE Some(Sqrt(summation_power(nums, Fin(0))))

Front(s) == SubSeq(s, 1, Len(s) - 1)

\* One insertion step of sort_by: x is moved towards the front of the sorted
\* prefix s while the comparator answers Less; an unwrap of None panics.
RECURSIVE insert_tail(_, _)
insert_tail(s, x) ==
    IF s = <<>> THEN [ok |-> TRUE, v |-> <<x>>]
    ELSE LET c == PartialCmp(x, s[Len(s)])
         IN  IF c = "None" THEN [ok |-> FALSE, v |-> <<>>]
             ELSE IF c = "Less"
                  THEN LET r == insert_tail(Front(s), x)
                       IN  IF r.ok THEN [ok |-> TRUE, v |-> Append(r.v, s[Len(s)])]
                           ELSE r
             ELSE [ok |-> TRUE, v |-> Append(s, x)]

RECURSIVE sort_from(_, _, _)
sort_from(nums, i, acc) ==
    IF ~acc.ok \/ i > Len(nums) THEN acc
    ELSE sort_from(nums, i + 1, insert_tail(acc.v, nums[i]))

\* nums.sort_by(|a, b| a.partial_cmp(b).unwrap()) on the owned copy
sort_by(nums) == sort_from(nums, 1, [ok |-> TRUE, v |-> <<>>])

\* median taking the upper of the two central elements of an even sample
median_upper(nums) ==
    LET sorted == sort_by(nums)
    IN  IF ~sorted.ok THEN Panic
        ELSE IF sorted.v = <<>> THEN None
        ELSE LET length == Len(sorted.v)
                 offset == length - 1
             IN  IF length % 2 = 0
                 THEN Some(sorted.v[(offset \div 2) + 2])
                 ELSE Some(sorted.v[(offset \div 2) + 1])

median(nums) ==
    LET sorted == sort_by(nums)
    IN  IF ~sorted.ok THEN Panic
        ELSE IF sorted.v = <<>> THEN None
        ELSE LET length == Len(sorted.v)
                 offset == length - 1
             IN  IF length % 2 = 0
                 THEN Some(sorted.v[(offset \div 2) + 1])
                 ELSE Some(sorted.v[(offset \div 2) + 1])

\* The caller's slice after median returns or unwinds: the sort is applied to
\* the copy made by to_owned, the borrowed slice is left as it was.
median_caller_sorted_in_place(nums) ==
    IF sort_by(nums).ok THEN sort_by(nums).v ELSE nums

median_caller(nums) == nums

----------------------------------------------------------------------------
\* Inputs

\* finite sample values (spec section 3)
FiniteElems == {Fin(-2), Fin(-1), Fin(0), Q(1, 2), Fin(1), Fin(3)}

\* all f64 values, special values included
AllElems == FiniteElems \cup {NaN, Inf(1), Inf(-1)}

FiniteOffsets == {Fin(0), Fin(2), Q(-1, 2)}

AllOffsets == FiniteOffsets \cup {NaN, Inf(1)}

SeqsUpTo(S, n) == UNION {[1..m -> S] : m \in 0..n}

----------------------------------------------------------------------------
\* The caller: holds a sample and calls the library functions on it.

InitOver(S) ==
    /\ sample \in SeqsUpTo(S, MaxLen)
    /\ off = Fin(0)
    /\ called = "none"
    /\ ret = NoCall

Init == InitOver(FiniteElems)

InitAll == InitOver(AllElems)

CallMean ==
    /\ called' = "mean"
    /\ ret' = mean(sample)
    /\ UNCHANGED <<sample, off>>

CallStddev ==
    /\ called' = "stddev"
    /\ ret' = stddev(sample)
    /\ UNCHANGED <<sample, off>>

CallMedian ==
    /\ called' = "median"
    /\ ret' = median(sample)
    /\ sample' = median_caller(sample)
    /\ UNCHANGED off

CallL2 ==
    /\ called' = "l2"
    /\ ret' = l2(sample)
    /\ UNCHANGED <<sample, off>>

CallSummationPower(O) ==
    \E o \in O :
        /\ called' = "summation_power"
        /\ off' = o
        /\ ret' = Plain(summation_power(sample, o))
        /\ UNCHANGED sample

CallSummationPowerFinite == CallSummationPower(FiniteOffsets)

CallSummationPowerAll == CallSummationPower(AllOffsets)

Next ==
    \/ CallMean
    \/ CallStddev
    \/ CallMedian
    \/ CallL2
    \/ CallSummationPowerFinite

NextAll ==
    \/ CallMean
    \/ CallStddev
    \/ CallMedian
    \/ CallL2
    \/ CallSummationPowerAll

\* samples of finite values
Spec == Init /\ [][Next]_vars

\* samples of any f64 values, NaN and the infinities included
SpecAll == InitAll /\ [][NextAll]_vars

TypeOK ==
    /\ called \in {"none", "mean", "stddev", "median", "l2", "summation_power"}
    /\ ret.tag \in {"NoCall", "None", "Some", "f64", "Panic"}
    /\ Len(sample) <= MaxLen

----------------------------------------------------------------------------
\* Mathematical sums the claims are stated with (folded from the right,
\* independently of the loops of the code).

RECURSIVE SumOf(_)
SumOf(s) == IF s = <<>> THEN Fin(0) ELSE Add(Head(s), SumOf(Tail(s)))

RECURSIVE SumSqDev(_, _)
SumSqDev(s, m) ==
    IF s = <<>> THEN Fin(0)
    ELSE Add(Mul(Sub(Head(s), m), Sub(Head(s), m)), SumSqDev(Tail(s), m))

SumSq(s) == SumSqDev(s, Fin(0))

Count(s) == Fin(Len(s))

HasNaN(s) == \E i \in 1..Len(s) : IsNaN(s[i])

Less(a, b) == PartialCmp(a, b) = "Less"

LessEq(a, b) == PartialCmp(a, b) \in {"Less", "Equal"}

\* v is the element at (0-based) index idx of s in non-decreasing order
IsOrderStatistic(v, s, idx) ==
    /\ \E i \in 1..Len(s) : s[i] = v
    /\ Cardinality({i \in 1..Len(s) : Less(s[i], v)}) <= idx
    /\ Cardinality({i \in 1..Len(s) : LessEq(s[i], v)}) >= idx + 1

\* r * r for a result of Sqrt
Square(r) == IF r.k = "rad" THEN Q(r.n, r.d) ELSE Mul(r, r)

NonNegative(r) == r.k = "rad" \/ (r.k \in {"fin", "inf"} /\ r.n >= 0)

----------------------------------------------------------------------------
\* C1: a None result occurs only for stddev and median and only on the empty
\* sample: stddev(s) and median(s) are None exactly when s is empty, mean(s)
\* and l2(s) are Some for every s, the empty one included.
C1_NoneOnlyOnEmpty ==
    /\ called \in {"stddev", "median"} => (ret = None <=> sample = <<>>)
    /\ called \in {"mean", "l2"} => ret.tag = "Some"
    /\ ret.tag = "None" => called \in {"stddev", "median"} /\ sample = <<>>

C1_Witness ==
    called = "stddev" /\ sample = <<>> /\ ret = None

C3_MedianIsLowerMiddle ==
    (called = "median" /\ sample # <<>>) =>
        /\ ret.tag = "Some"
        /\ IsOrderStatistic(ret.val, sample, (Len(sample) - 1) \div 2)

C3_Witness ==
    /\ called = "median"
    /\ Len(sample) = 2
    /\ Less(sample[2], sample[1])
    /\ ret = Some(sample[2])

\* C4: mean(s) is Some(0.0) for the empty sample and otherwise Some(sum of
\* the elements / number of elements); mean([x]) = x.
C4_MeanIsSumOverCount ==
    called = "mean" =>
        /\ sample = <<>> => ret = Some(Fin(0))
        /\ sample # <<>> => ret = Some(Div(SumOf(sample), Count(sample)))
        /\ Len(sample) = 1 => ret = Some(sample[1])

C4_Witness ==
    /\ called = "mean"
    /\ Len(sample) >= 2
    /\ ret.tag = "Some"
    /\ ret.val.d = 3

\* C5: summation_power(s, offset) is the sum over the elements e of s of
\* (e - offset)^2, and 0.0 for the empty sample whatever the offset.
C5_SummationPowerIsSumSqDev ==
    called = "summation_power" =>
        /\ ret = Plain(SumSqDev(sample, off))
        /\ ret = Plain(Add(Sub(SumSq(sample),
                               Mul(Mul(Fin(2), off), SumOf(sample))),
                           Mul(Count(sample), Mul(off, off))))
        /\ sample = <<>> => ret = Plain(Fin(0))
        /\ summation_power(<<Fin(-3)>>, Fin(0)) = Fin(9)
        /\ summation_power(<<Fin(-3)>>, Fin(2)) = Fin(25)
        /\ summation_power(<<Fin(-3), Fin(4)>>, Fin(2)) = Fin(29)

C5_Witness ==
    /\ called = "summation_power"
    /\ Len(sample) >= 2
    /\ off = Fin(2)
    /\ ret.val.n > 0

\* C6: l2(s) is Some(0.0) for the empty sample and otherwise Some(r) with
\* r >= 0 and r * r = the sum of the squares of the elements.
C6_L2IsRootOfSumSq ==
    called = "l2" =>
        /\ sample = <<>> => ret = Some(Fin(0))
        /\ sample # <<>> =>
              /\ ret.tag = "Some"
              /\ NonNegative(ret.val)
              /\ Square(ret.val) = SumSq(sample)
        /\ l2(<<Fin(-3)>>) = Some(Fin(3))
        /\ l2(<<Fin(-3), Fin(4)>>) = Some(Fin(5))
        /\ l2(<<Fin(-4), Fin(-2), Fin(4)>>) = Some(Fin(6))

C6_Witness ==
    /\ called = "l2"
    /\ Len(sample) >= 2
    /\ ret.tag = "Some"
    /\ ret.val.k = "fin"
    /\ ret.val.n > 1

\* C7: median does not change the caller's sequence: after the call it has
\* the same elements in the same order as before.
C7_MedianLeavesSample ==
    [][called' = "median" => sample' = sample]_vars

C7_Witness ==
    /\ called = "median"
    /\ ret.tag = "Some"
    /\ \E i \in 1..(Len(sample) - 1) : Less(sample[i + 1], sample[i])

C9_NaNNeverAborts ==
    (called # "none" /\ HasNaN(sample)) => ret.tag \in {"Some", "f64"}

\* C10: stddev is the population standard deviation: for a non-empty sample
\* of n elements it is Some of the square root of (the sum of squared
\* deviations from the mean / n).
C10_StddevIsPopulationStddev ==
    (called = "stddev" /\ sample # <<>>) =>
        ret = Some(Sqrt(Div(SumSqDev(sample, Div(SumOf(sample), Count(sample))),
                            Count(sample))))

====
